---- MODULE Spec2Model ----
(***************************************************************************)
(* Model of the LLM invocation pipeline of sectors_news_scraper:           *)
(*   NewsClassifier._classify_openai_async / classify_article_async and    *)
(*   the table loaders (extract_classifier.py),                            *)
(*   ArticleScorer.get_article_score (extract_score_news.py),              *)
(*   summarize_news / summarize_llama / get_article_body                   *)
(*   (extract_summary_news.py).                                            *)
(* One logical task runs at a time; every step of the fallback loop        *)
(* (backend call, pacing sleep, result handling, exception handling,       *)
(* return) is one action.                                                  *)
(* Spec follows the top-level calls; in it the table loads of a call are   *)
(* one step and `cache` holds the tables loaded.  LoadSpec follows the     *)
(* three loaders call by call (day, backing store, snapshot files, cache   *)
(* fields); FilterSpec applies the tag filter to every raw list.           *)
(***************************************************************************)
EXTENDS Integers, Sequences, FiniteSets, TLC

\* ------------------------------------------------------------------ bounds
\* Length N of the backend chain returned by get_llms().
NumLLMs == 2
\* Longest raw tag list enumerated for the tag filter.
MaxTagLen == 4
\* Raw scores range over -ScoreSpan .. ScoreCeiling + ScoreSpan.
ScoreSpan == 50

\* Revisions the data of the backing store goes through.
MaxRevision == 2

\* ------------------------------------------------------- program constants
\* asyncio.sleep(8)
PacingDelay == 8
\* 0 <= result_score <= 150
ScoreFloor == 0
ScoreCeiling == 150

\* ------------------------------------------------------------ JSON values
\* Variant: sentiment is awaited before subsectors.
CategoriesSwapped == <<"tags", "tickers", "sentiment", "subsectors", "dimension">>

\* Values a parser chain can hand back, tagged by their Python type.
NoneVal == [t |-> "none"]
StrVal(s) == [t |-> "str", v |-> s]
IntVal(n) == [t |-> "int", v |-> n]
ListVal(q) == [t |-> "list", v |-> q]
DictVal(f) == [t |-> "dict", v |-> f]

\* The dict with no key.
EmptyDict == DictVal([k \in {} |-> NoneVal])

\* dict.get(key, default)
DictGet(d, key, default) == IF key \in DOMAIN d.v THEN d.v[key] ELSE default

\* What one step of a loop body does next.
Continue == [k |-> "continue"]
Return(val) == [k |-> "return", v |-> val]
Raise(exc) == [k |-> "raise", e |-> exc]

\* ------------------------------------------------------------- categories
Categories == <<"tags", "tickers", "subsectors", "sentiment", "dimension">>

\* A category the prompt, schema and branch mappings have an entry for.
KnownCategory(category) == \E j \in 1 .. Len(Categories) : Categories[j] = category

DimensionKeys ==
    {"valuation", "future", "technical", "financials",
     "dividend", "management", "ownership", "sustainability"}

\* The backend chain in priority order: indices 1..NumLLMs.
get_llms == 1 .. NumLLMs

\* --------------------------------------------------------------- tag filter
TagAlphabet == {"a", "b", "x"}

\* The symbols of the company table.
CompanyTable == {"BBCA"}

\* The loop over result_output with the `seen` set: keeps a tag when it is in
\* the tag table and was not kept before.
RECURSIVE FilterLoop(_, _, _, _)
FilterLoop(raw, tags, seen, check_tags) ==
    IF raw = <<>> THEN check_tags
    ELSE LET tag == Head(raw) IN
         IF tag \in tags /\ tag \notin seen
         THEN FilterLoop(Tail(raw), tags, seen \cup {tag}, Append(check_tags, tag))
         ELSE FilterLoop(Tail(raw), tags, seen, check_tags)

\* Variant: no `seen` set.
FilterTagsNoDedup(raw, tags) == SelectSeq(raw, LAMBDA tag : tag \in tags)

FilterTags(raw, tags) == FilterLoop(raw, tags, {}, <<>>)

\* ------------------------------------------------- what a backend call yields
\* Exceptions a chain invocation raises: groq's RateLimitError whose message
\* carries "tokens per day"/"tpd", groq's RateLimitError without it,
\* openai.RateLimitError, json.JSONDecodeError, any other Exception.
Exceptions == {"rl_daily", "rl_other", "rl_openai", "json", "other"}

TagSamples == {<<>>, <<"a">>, <<"b", "a", "b", "x">>, <<"x">>}

FullDimension(val) == DictVal([k \in DimensionKeys |-> val])

\* Values the parser chain returns for a category (None included).
ClassifyValues(category) ==
    {NoneVal, ListVal(<<>>), EmptyDict} \cup
    CASE category = "tags" ->
             {DictVal([tags |-> ListVal(q)]) : q \in TagSamples}
             \cup {DictVal([tags |-> NoneVal])}
      [] category = "tickers" ->
             {DictVal([tickers |-> ListVal(<<"BBCA">>)]),
              DictVal([tickers |-> ListVal(<<"ZZZZ">>)])}
      [] category = "subsectors" ->
             {DictVal([subsector |-> StrVal("banks")]),
              DictVal([subsector |-> StrVal("moon-mining")]),
              DictVal([subsector |-> NoneVal])}
      [] category = "sentiment" ->
             {DictVal([sentiment |-> StrVal("bullish")])}
      [] category = "dimension" ->
             {FullDimension(IntVal(1)), FullDimension(NoneVal),
              DictVal([valuation |-> IntVal(1)])}
      [] OTHER -> {DictVal([tags |-> ListVal(<<"a">>)])}

RawScores == (0 - ScoreSpan) .. (ScoreCeiling + ScoreSpan)

ScoreValues ==
    {NoneVal, ListVal(<<>>), EmptyDict, DictVal([score |-> StrVal("85")])}
    \cup {DictVal([score |-> IntVal(n)]) : n \in RawScores}

\* ------------------------------------------------------------------- state
VARIABLES
    op,         \* running top-level call: "idle", "classify", "score",
                \* "direct" (one _classify_openai_async call), "summarize"
    pc,         \* position inside it
    cat,        \* index in Categories of the running invocation, 0 if none
    llm,        \* loop variable of `for llm in get_llms()`
    result,     \* value the chain invocation returned in this iteration
    exc,        \* exception in flight, "" if none
    log,        \* attempts of the running invocation, in order
    elapsed,    \* time spent in asyncio.sleep by the running invocation
    ret,        \* value returned by the invocation or by get_article_score
    results,    \* values returned to classify_article_async so far
    article,    \* value returned by classify_article_async
    tags,       \* the tag table (_tags_cache)
    exhausted,  \* backends that have signalled their daily limit (history)
    cache,      \* reference tables whose cache field is filled
    text,       \* article text summarize_news got from get_article_body
    summary,    \* pair returned by summarize_news
    layers,     \* extraction layers get_article_body went through (history)
    day,        \* datetime.today().day
    store,      \* revision of the data in the backing store (Supabase)
    files,      \* content of each table's snapshot file, None if it is missing
    memo,       \* content of each table's cache field, None if it is empty
    last,       \* the latest call of a table loader and its outcome (history)
    hist,       \* per table, how its cache field was filled (history)
    fpc, fraw, ftags, fout, fagain   \* the tag filter applied on its own

vars == <<op, pc, cat, llm, result, exc, log, elapsed, ret, results, article,
          tags, exhausted, cache, text, summary, layers,
          day, store, files, memo, last, hist,
          fpc, fraw, ftags, fout, fagain>>

callVars == <<cache, text, summary, layers>>

filterVars == <<fpc, fraw, ftags, fout, fagain>>

loadVars == <<day, store, files, memo, last, hist>>

\* No value yet.
Unset == [t |-> "unset"]

\* A category string no branch knows stands for all of them.
AnyCategory == Categories \o <<"headline">>

Category == AnyCategory[cat]

\* _classify_openai_async runs for the article or for a single call.
ClassifierOp(o) == o \in {"classify", "direct"}

Max(a, b) == IF a >= b THEN a ELSE b
Min(a, b) == IF a <= b THEN a ELSE b

\* ------------------------------------------------------ classification body
\* Variant: the missing keys of a dict are filled in with None.
DimensionResultCompleted(r) ==
    IF r.t = "dict"
    THEN Return(DictVal([k \in DimensionKeys \cup DOMAIN r.v |->
                            DictGet(r, k, NoneVal)]))
    ELSE Raise("other")

\* The dimension branch: a dict is returned whole; the fallback branch calls
\* result.get on a value that is not a dict, which raises AttributeError.
DimensionResult(r) ==
    IF r.t = "dict" THEN Return(r) ELSE Raise("other")

\* Variant: the subsectors branch reads the key "subsectors".
ClassifyHandleWrongKey(category, r, tagtable) ==
    IF r.t = "none" THEN Continue
    ELSE IF ~KnownCategory(category) THEN Continue
    ELSE IF category = "dimension" THEN DimensionResult(r)
    ELSE IF r.t # "dict" THEN Raise("other")
    ELSE CASE category = "tags" ->
                  LET result_output == DictGet(r, "tags", ListVal(<<>>)) IN
                  IF result_output.t = "list"
                  THEN Return(ListVal(FilterTags(result_output.v, tagtable)))
                  ELSE Raise("other")
           [] category = "tickers" -> Return(DictGet(r, "tickers", ListVal(<<>>)))
           [] category = "subsectors" -> Return(DictGet(r, "subsectors", StrVal("")))
           [] category = "sentiment" -> Return(DictGet(r, "sentiment", StrVal("")))

\* Variant: the tickers are filtered against the company table.
ClassifyHandleFiltersTickers(category, r, tagtable) ==
    IF r.t = "none" THEN Continue
    ELSE IF ~KnownCategory(category) THEN Continue
    ELSE IF category = "dimension" THEN DimensionResult(r)
    ELSE IF r.t # "dict" THEN Raise("other")
    ELSE CASE category = "tags" ->
                  LET result_output == DictGet(r, "tags", ListVal(<<>>)) IN
                  IF result_output.t = "list"
                  THEN Return(ListVal(FilterTags(result_output.v, tagtable)))
                  ELSE Raise("other")
           [] category = "tickers" ->
                  Return(ListVal(FilterTags(DictGet(r, "tickers", ListVal(<<>>)).v,
                                            CompanyTable)))
           [] category = "subsectors" -> Return(DictGet(r, "subsector", StrVal("")))
           [] category = "sentiment" -> Return(DictGet(r, "sentiment", StrVal("")))

\* The loop body after the sleep: `if result is None: continue`, then the
\* branch of the category.  result.get on a non-dict raises AttributeError,
\* iterating a non-list tags value raises TypeError.  With a category that
\* has no branch the body ends and the loop goes on.
ClassifyHandle(category, r, tagtable) ==
    IF r.t = "none" THEN Continue
    ELSE IF ~KnownCategory(category) THEN Continue
    ELSE IF category = "dimension" THEN DimensionResult(r)
    ELSE IF r.t # "dict" THEN Raise("other")
    ELSE CASE category = "tags" ->
                  LET result_output == DictGet(r, "tags", ListVal(<<>>)) IN
                  IF result_output.t = "list"
                  THEN Return(ListVal(FilterTags(result_output.v, tagtable)))
                  ELSE Raise("other")
           [] category = "tickers" -> Return(DictGet(r, "tickers", ListVal(<<>>)))
           [] category = "subsectors" -> Return(DictGet(r, "subsector", StrVal("")))
           [] category = "sentiment" -> Return(DictGet(r, "sentiment", StrVal("")))

\* Variant: a rate limit without the daily signature is raised again.
ClassifyExceptReraise(e) ==
    CASE e = "rl_daily" -> "advance"
      [] e = "rl_other" -> "propagate"
      [] OTHER -> "advance"

\* The except clauses of the classification loop: every one of them ends the
\* iteration (RateLimitError without the daily signature falls off the end of
\* its clause), none re-raises.
ClassifyExcept(e) ==
    CASE e = "rl_daily" -> "advance"
      [] e = "rl_other" -> "advance"
      [] e = "json" -> "advance"
      [] OTHER -> "advance"

\* Does the rate-limit clause take the branch that logs the daily limit?
DailySignature(e) == e = "rl_daily"

\* ----------------------------------------------------------- scoring body
\* Variant: the ceiling is 100.
ClampScoreTo100(n) ==
    IF ScoreFloor <= n /\ n <= 100 THEN n ELSE Max(ScoreFloor, Min(100, n))

ClampScore(n) ==
    IF ScoreFloor <= n /\ n <= ScoreCeiling
    THEN n
    ELSE Max(ScoreFloor, Min(ScoreCeiling, n))

\* The loop body of get_article_score after invoke_llm.  Comparing a score
\* that is not a number raises TypeError.
ScoreHandle(r) ==
    IF r.t = "none" THEN Continue
    ELSE IF r.t # "dict" THEN Raise("other")
    ELSE LET result_score == DictGet(r, "score", IntVal(0)) IN
         IF result_score.t = "int"
         THEN Return(IntVal(ClampScore(result_score.v)))
         ELSE Raise("other")

ScoreExcept(e) ==
    CASE e = "json" -> "advance"
      [] OTHER -> "advance"

\* Variant: no loop sleeps.
SleepsNever(o) == FALSE

\* The classification loop sleeps after the call returned; the scoring loop
\* has no sleep.
SleepsAfterCall(o) == ClassifierOp(o)

\* --------------------------------------------------------- article result
\* Variant: the dimension result is left out of the check.
AggregateIgnoresDimension(rs) ==
    IF \E j \in 1 .. (Len(rs) - 1) : rs[j].t = "none"
    THEN NoneVal
    ELSE [t |-> "tuple", v |-> rs]

\* any(isinstance(res, Exception) or res is None for res in results)
AggregateResults(rs) ==
    IF \E j \in 1 .. Len(rs) : rs[j].t = "none"
    THEN NoneVal
    ELSE [t |-> "tuple", v |-> rs]

\* ------------------------------------------------------ before the loop
\* The reference tables in the order _classify_openai_async loads them.
Tables == <<"tags", "company", "subsectors">>

AllTables == {Tables[j] : j \in 1 .. Len(Tables)}

\* ------------------------------------------------------ the table loaders
\* Days of the month on which a loader is called.
Days == {1, 2, 15}

\* Variant: the refresh happens on the first of the month alone.
RefreshDaysFirstOnly == {1}

\* datetime.today().day in [1, 15]
RefreshDays == {1, 15}

\* Outcome of a loader call: what it returns or that it raises, the cache
\* field and the snapshot file after it, and where it took the table from.
LoadResult(out, val, c, f, from) ==
    [out |-> out, val |-> val, cache |-> c, file |-> f, from |-> from]

\* Variant: the cache field is not looked at.
load_subsector_data_uncached(c, d, st, ok, f, wok) ==
    IF d \in RefreshDays
    THEN IF ~ok \/ ~wok
         THEN LoadResult("raise", NoneVal, c, f, "store")
         ELSE LoadResult("return", IntVal(st), IntVal(st), IntVal(st), "store")
    ELSE IF f = NoneVal
         THEN LoadResult("raise", NoneVal, c, f, "file")
         ELSE LoadResult("return", f, f, f, "file")

\* _load_subsector_data with cache field c on day d: st is the data of the
\* backing store, ok whether the query and the building of the table go
\* through, f the snapshot file, wok whether the file can be written.
load_subsector_data(c, d, st, ok, f, wok) ==
    IF c # NoneVal THEN LoadResult("return", c, c, f, "cache")
    ELSE IF d \in RefreshDays
         THEN IF ~ok \/ ~wok
              THEN LoadResult("raise", NoneVal, c, f, "store")
              ELSE LoadResult("return", IntVal(st), IntVal(st), IntVal(st), "store")
         ELSE IF f = NoneVal
              THEN LoadResult("raise", NoneVal, c, f, "file")
              ELSE LoadResult("return", f, f, f, "file")

\* _load_tag_data: the cache field, or else the file; no backing store.
load_tag_data(c, f) ==
    IF c # NoneVal THEN LoadResult("return", c, c, f, "cache")
    ELSE IF f = NoneVal
         THEN LoadResult("raise", NoneVal, c, f, "file")
         ELSE LoadResult("return", f, f, f, "file")

\* _load_company_data: two queries and the joining of their rows (ok), then
\* the file.
load_company_data(c, d, st, ok, f, wok) ==
    IF c # NoneVal THEN LoadResult("return", c, c, f, "cache")
    ELSE IF d \in RefreshDays
         THEN IF ~ok \/ ~wok
              THEN LoadResult("raise", NoneVal, c, f, "store")
              ELSE LoadResult("return", IntVal(st), IntVal(st), IntVal(st), "store")
         ELSE IF f = NoneVal
              THEN LoadResult("raise", NoneVal, c, f, "file")
              ELSE LoadResult("return", f, f, f, "file")

\* No loader has been called.
NoLoad == [table |-> "", day |-> 0, store |-> 0, from |-> "", out |-> "",
           val |-> NoneVal, hit |-> FALSE]

\* Variant: any template will do.
PromptConstructsAnything(category) == TRUE

\* template = prompt_methods.get(category): PromptTemplate takes a template
\* string and rejects the None of a category without entry.
PromptConstructs(category) == KnownCategory(category)

\* -------------------------------------------------------- summarization
\* A value `not` does not negate to True.
Truthy(val) ==
    CASE val.t = "none" -> FALSE
      [] val.t = "str" -> val.v # ""
      [] val.t = "list" -> val.v # <<>>
      [] val.t = "int" -> val.v # 0
      [] val.t = "dict" -> DOMAIN val.v # {}
      [] OTHER -> TRUE

\* The article text as the words get_article_body returned.
ArticleTexts == {<<>>, <<"news">>}

\* What one extraction layer does: it raises, or it hands back a text
\* (which may be empty).
Raised == [k |-> "raise"]
Text(t) == [k |-> "text", v |-> t]
LayerOutcomes == {Raised} \cup {Text(t) : t \in ArticleTexts}

Tried(layer, o) == [layer |-> layer, out |-> o]

\* No layer has run.
NoLayers == [out |-> "", tried |-> <<>>]

\* Variant: the extractor without proxy runs outside any try.
get_article_body_unguarded(p, s, u) ==
    LET Unproxied(before) ==
            IF u.k = "text"
            THEN [out |-> "return", val |-> u.v,
                  tried |-> Append(before, Tried("direct", u))]
            ELSE [out |-> "raise", val |-> <<>>,
                  tried |-> Append(before, Tried("direct", u))] IN
    IF p.k = "text"
    THEN IF p.v # <<>>
         THEN [out |-> "return", val |-> p.v, tried |-> <<Tried("proxy", p)>>]
         ELSE IF s.k = "text"
              THEN [out |-> "return", val |-> s.v,
                    tried |-> <<Tried("proxy", p), Tried("scrape", s)>>]
              ELSE Unproxied(<<Tried("proxy", p), Tried("scrape", s)>>)
    ELSE Unproxied(<<Tried("proxy", p)>>)

\* get_article_body, given what each layer would do: p the extractor behind
\* the proxy, s the request of the page and the text of its div "content"
\* (no such div: AttributeError), u the extractor without proxy.  A layer is
\* run only when the code gets to it.
get_article_body(p, s, u) ==
    LET Unproxied(before) ==
            IF u.k = "text"
            THEN [out |-> "return", val |-> u.v,
                  tried |-> Append(before, Tried("direct", u))]
            ELSE [out |-> "return", val |-> <<>>,
                  tried |-> Append(before, Tried("direct", u))] IN
    IF p.k = "text"
    THEN IF p.v # <<>>
         THEN [out |-> "return", val |-> p.v, tried |-> <<Tried("proxy", p)>>]
         ELSE IF s.k = "text"
              THEN [out |-> "return", val |-> s.v,
                    tried |-> <<Tried("proxy", p), Tried("scrape", s)>>]
              ELSE Unproxied(<<Tried("proxy", p), Tried("scrape", s)>>)
    ELSE Unproxied(<<Tried("proxy", p)>>)

\* Variant: the test is >= 0.
HasTextAlways(t) == Len(t) >= 0

\* len(news_text) > 0
HasText(t) == Len(t) > 0

Pair(title, body) == [t |-> "pair", title |-> title, body |-> body]

SummaryDict(title, body) == DictVal([title |-> title, body |-> body])

\* Values the summary chain returns.
SummaryValues ==
    {NoneVal, ListVal(<<>>), EmptyDict,
     DictVal([title |-> StrVal("T1")]),
     DictVal([body |-> StrVal("B2")]),
     SummaryDict(StrVal(""), StrVal("B1")),
     SummaryDict(StrVal("T1"), StrVal("B1")),
     SummaryDict(StrVal("T2"), StrVal("B2"))}

\* Variant: the keys are tested for presence, not for a value.
SummaryHandleKeyPresence(r) ==
    IF r.t # "dict" THEN Raise("other")
    ELSE IF "title" \notin DOMAIN r.v \/ "body" \notin DOMAIN r.v
         THEN Continue
         ELSE Return(r)

\* The loop body of summarize_llama after chain.invoke: response.get on a
\* value that is not a dict raises AttributeError.
SummaryHandle(r) ==
    IF r.t # "dict" THEN Raise("other")
    ELSE IF ~Truthy(DictGet(r, "title", NoneVal)) \/ ~Truthy(DictGet(r, "body", NoneVal))
         THEN Continue
         ELSE Return(r)

\* except openai.RateLimitError: raise; except Exception: continue.  groq's
\* RateLimitError is no openai.RateLimitError.
SummaryExcept(e) ==
    CASE e = "rl_openai" -> "propagate"
      [] OTHER -> "advance"

\* ------------------------------------------------------------ all loops
\* Values the chain of the running call returns.
CallValues(o, category) ==
    CASE ClassifierOp(o) -> ClassifyValues(category)
      [] o = "score" -> ScoreValues
      [] o = "summarize" -> SummaryValues

\* Variant: after the loop the summary is put together from the first title
\* and the first body any response carried.
ExhaustedValueAssembled(o) ==
    IF o = "summarize"
    THEN LET Field(k) ==
                 LET has == {j \in 1 .. Len(log) :
                                /\ log[j].out = "value"
                                /\ log[j].val.t = "dict"
                                /\ Truthy(DictGet(log[j].val, k, NoneVal))} IN
                 IF has = {} THEN StrVal("")
                 ELSE log[CHOOSE j \in has : \A i \in has : j <= i].val.v[k] IN
         SummaryDict(Field("title"), Field("body"))
    ELSE NoneVal

\* The return after the loop.
ExhaustedValue(o) ==
    IF o = "summarize" THEN SummaryDict(StrVal(""), StrVal("")) ELSE NoneVal

\* ------------------------------------------------------------------- Init
FilterOff ==
    /\ fpc = "off"
    /\ fraw = <<>>
    /\ ftags = {}
    /\ fout = <<>>
    /\ fagain = <<>>

\* The loaders are not followed one by one: a day without refresh, every
\* snapshot file in place.
LoadOff ==
    /\ day = 2
    /\ store = 0
    /\ files = [t \in AllTables |-> IntVal(0)]
    /\ memo = [t \in AllTables |-> NoneVal]
    /\ last = NoLoad
    /\ hist = [t \in AllTables |-> NoneVal]

Idle ==
    /\ op = "idle"
    /\ pc = "idle"
    /\ cat = 0
    /\ llm = 0
    /\ result = Unset
    /\ exc = ""
    /\ log = <<>>
    /\ elapsed = 0
    /\ ret = Unset
    /\ results = <<>>
    /\ article = Unset
    /\ text = <<>>
    /\ summary = Unset
    /\ layers = NoLayers

Init ==
    /\ Idle
    /\ tags = {"a", "b"}
    /\ exhausted = {}
    /\ cache = {}
    /\ FilterOff
    /\ LoadOff

\* ---------------------------------------------------------------- actions
\* The batch caller calls classify_article_async, which calls
\* _classify_openai_async for "tags".
StartArticle ==
    /\ op = "idle"
    /\ op' = "classify"
    /\ pc' = "begin"
    /\ cat' = 1
    /\ UNCHANGED <<llm, result, exc, log, elapsed, ret, results, article,
                   tags, exhausted>>
    /\ UNCHANGED filterVars
    /\ UNCHANGED callVars
    /\ UNCHANGED loadVars

\* The batch caller calls get_article_score.
StartScore ==
    /\ op = "idle"
    /\ op' = "score"
    /\ pc' = "begin"
    /\ UNCHANGED <<cat, llm, result, exc, log, elapsed, ret, results, article,
                   tags, exhausted>>
    /\ UNCHANGED filterVars
    /\ UNCHANGED callVars
    /\ UNCHANGED loadVars

\* A caller calls _classify_openai_async once, with any category string.
StartDirect ==
    /\ op = "idle"
    /\ op' = "direct"
    /\ pc' = "begin"
    /\ cat' \in 1 .. Len(AnyCategory)
    /\ UNCHANGED <<llm, result, exc, log, elapsed, ret, results, article,
                   tags, exhausted>>
    /\ UNCHANGED filterVars
    /\ UNCHANGED callVars
    /\ UNCHANGED loadVars

\* The batch caller calls summarize_news.
StartSummarize ==
    /\ op = "idle"
    /\ op' = "summarize"
    /\ pc' = "extract"
    /\ UNCHANGED <<cat, llm, result, exc, log, elapsed, ret, results, article,
                   tags, exhausted>>
    /\ UNCHANGED filterVars
    /\ UNCHANGED callVars
    /\ UNCHANGED loadVars

\* news_text = get_article_body(url), and the test of its length: without
\* text summarize_news returns "", "" at once.
Extract ==
    /\ pc = "extract"
    /\ \E p \in LayerOutcomes, s \in LayerOutcomes, u \in LayerOutcomes :
          LET b == get_article_body(p, s, u) IN
          /\ layers' = [out |-> b.out, tried |-> b.tried]
          /\ IF b.out = "raise"
             THEN /\ pc' = "raised"
                  /\ UNCHANGED <<text, summary>>
             ELSE /\ text' = b.val
                  /\ IF HasText(b.val)
                     THEN /\ pc' = "begin"
                          /\ UNCHANGED summary
                     ELSE /\ pc' = "done"
                          /\ summary' = Pair(StrVal(""), StrVal(""))
    /\ UNCHANGED <<op, cat, llm, result, exc, log, elapsed, ret, results,
                   article, tags, exhausted, cache>>
    /\ UNCHANGED filterVars
    /\ UNCHANGED loadVars

\* Everything before the loop: tables, parser, prompt, input data.  The
\* classifier fills the caches that are still empty.
Prepare ==
    /\ pc = "begin"
    /\ ClassifierOp(op) => PromptConstructs(Category)
    /\ pc' = "loop"
    /\ llm' = 1
    /\ log' = <<>>
    /\ elapsed' = 0
    /\ result' = Unset
    /\ ret' = Unset
    /\ cache' = IF ClassifierOp(op) THEN AllTables ELSE cache
    /\ UNCHANGED <<op, cat, exc, results, article, tags, exhausted>>
    /\ UNCHANGED filterVars
    /\ UNCHANGED <<text, summary, layers>>
    /\ UNCHANGED loadVars

\* The part before the loop raises: the load of a table that is not cached
\* fails (the tables before it are cached by then), or PromptTemplate rejects
\* the template None of an unknown category.  Nothing catches it.
PrepareRaises ==
    /\ pc = "begin"
    /\ ClassifierOp(op)
    /\ \/ \E j \in 1 .. Len(Tables) :
             /\ Tables[j] \notin cache
             /\ cache' = cache \cup {Tables[i] : i \in 1 .. (j - 1)}
       \/ /\ ~PromptConstructs(Category)
          /\ cache' = AllTables
    /\ pc' = "raised"
    /\ UNCHANGED <<op, cat, llm, result, exc, log, elapsed, ret, results,
                   article, tags, exhausted>>
    /\ UNCHANGED filterVars
    /\ UNCHANGED <<text, summary, layers>>
    /\ UNCHANGED loadVars

\* One iteration's chain invocation returns a value.
InvokeReturns ==
    /\ pc = "loop"
    /\ llm \in get_llms
    /\ \E val \in CallValues(op, Category) :
          /\ result' = val
          /\ log' = Append(log, [llm |-> llm, out |-> "value", val |-> val,
                                 slept |-> FALSE])
    /\ pc' = IF SleepsAfterCall(op) THEN "sleep" ELSE "handle"
    /\ UNCHANGED <<op, cat, llm, exc, elapsed, ret, results, article, tags,
                   exhausted>>
    /\ UNCHANGED filterVars
    /\ UNCHANGED callVars
    /\ UNCHANGED loadVars

\* One iteration's chain invocation raises.
InvokeRaises ==
    /\ pc = "loop"
    /\ llm \in get_llms
    /\ \E e \in Exceptions :
          /\ exc' = e
          /\ log' = Append(log, [llm |-> llm, out |-> e, val |-> NoneVal,
                                 slept |-> FALSE])
    /\ pc' = "except"
    /\ UNCHANGED <<op, cat, llm, result, elapsed, ret, results, article, tags,
                   exhausted>>
    /\ UNCHANGED filterVars
    /\ UNCHANGED callVars
    /\ UNCHANGED loadVars

\* await asyncio.sleep(8)
Sleep ==
    /\ pc = "sleep"
    /\ elapsed' = elapsed + PacingDelay
    /\ log' = [log EXCEPT ![Len(log)].slept = TRUE]
    /\ pc' = "handle"
    /\ UNCHANGED <<op, cat, llm, result, exc, ret, results, article, tags,
                   exhausted>>
    /\ UNCHANGED filterVars
    /\ UNCHANGED callVars
    /\ UNCHANGED loadVars

\* The rest of the try body.
Handle ==
    /\ pc = "handle"
    /\ LET h == CASE ClassifierOp(op) -> ClassifyHandle(Category, result, tags)
                  [] op = "score" -> ScoreHandle(result)
                  [] op = "summarize" -> SummaryHandle(result) IN
       /\ CASE h.k = "continue" ->
                   /\ pc' = "loop"
                   /\ llm' = llm + 1
                   /\ result' = Unset
                   /\ UNCHANGED <<exc, ret>>
            [] h.k = "return" ->
                   /\ pc' = "ret"
                   /\ ret' = h.v
                   /\ UNCHANGED <<llm, result, exc>>
            [] h.k = "raise" ->
                   /\ pc' = "except"
                   /\ exc' = h.e
                   /\ UNCHANGED <<llm, result, ret>>
    /\ UNCHANGED <<op, cat, log, elapsed, results, article, tags, exhausted>>
    /\ UNCHANGED filterVars
    /\ UNCHANGED callVars
    /\ UNCHANGED loadVars

\* The except clauses.
Except ==
    /\ pc = "except"
    /\ LET d == CASE ClassifierOp(op) -> ClassifyExcept(exc)
                  [] op = "score" -> ScoreExcept(exc)
                  [] op = "summarize" -> SummaryExcept(exc) IN
       IF d = "advance"
       THEN /\ pc' = "loop"
            /\ llm' = llm + 1
       ELSE /\ pc' = "raised"
            /\ UNCHANGED llm
    /\ exhausted' = IF ClassifierOp(op) /\ DailySignature(exc)
                    THEN exhausted \cup {llm}
                    ELSE exhausted
    /\ exc' = ""
    /\ result' = Unset
    /\ UNCHANGED <<op, cat, log, elapsed, ret, results, article, tags>>
    /\ UNCHANGED filterVars
    /\ UNCHANGED callVars
    /\ UNCHANGED loadVars

\* The chain is used up: the return after the loop.
Exhausted ==
    /\ pc = "loop"
    /\ llm \notin get_llms
    /\ ret' = ExhaustedValue(op)
    /\ pc' = "ret"
    /\ UNCHANGED <<op, cat, llm, result, exc, log, elapsed, results, article,
                   tags, exhausted>>
    /\ UNCHANGED filterVars
    /\ UNCHANGED callVars
    /\ UNCHANGED loadVars

\* classify_article_async takes the value of one await and goes on to the
\* next category, or to the check of the five results.
NextCategory ==
    /\ op = "classify"
    /\ pc = "ret"
    /\ results' = Append(results, ret)
    /\ IF cat < Len(Categories)
       THEN /\ cat' = cat + 1
            /\ pc' = "begin"
       ELSE /\ pc' = "aggregate"
            /\ UNCHANGED cat
    /\ llm' = 0
    /\ result' = Unset
    /\ log' = <<>>
    /\ elapsed' = 0
    /\ ret' = Unset
    /\ UNCHANGED <<op, exc, article, tags, exhausted>>
    /\ UNCHANGED filterVars
    /\ UNCHANGED callVars
    /\ UNCHANGED loadVars

\* The check of the five results and the return of classify_article_async.
Aggregate ==
    /\ pc = "aggregate"
    /\ article' = AggregateResults(results)
    /\ pc' = "done"
    /\ UNCHANGED <<op, cat, llm, result, exc, log, elapsed, ret, results, tags,
                   exhausted>>
    /\ UNCHANGED filterVars
    /\ UNCHANGED callVars
    /\ UNCHANGED loadVars

\* summarize_news returns response["title"], response["body"].
SummarizeReturn ==
    /\ op = "summarize"
    /\ pc = "ret"
    /\ summary' = Pair(ret.v["title"], ret.v["body"])
    /\ pc' = "done"
    /\ UNCHANGED <<op, cat, llm, result, exc, log, elapsed, ret, results,
                   article, tags, exhausted, cache, text, layers>>
    /\ UNCHANGED filterVars
    /\ UNCHANGED loadVars

\* The batch caller has the outcome of the call and is free for the next.
Finish ==
    /\ \/ pc \in {"done", "raised"}
       \/ op \in {"score", "direct"} /\ pc = "ret"
    /\ op' = "idle"
    /\ pc' = "idle"
    /\ cat' = 0
    /\ llm' = 0
    /\ result' = Unset
    /\ exc' = ""
    /\ log' = <<>>
    /\ elapsed' = 0
    /\ ret' = Unset
    /\ results' = <<>>
    /\ article' = Unset
    /\ text' = <<>>
    /\ summary' = Unset
    /\ layers' = NoLayers
    /\ UNCHANGED <<tags, exhausted, cache>>
    /\ UNCHANGED filterVars
    /\ UNCHANGED loadVars

Next ==
    \/ StartArticle
    \/ StartScore
    \/ StartDirect
    \/ StartSummarize
    \/ Extract
    \/ Prepare
    \/ PrepareRaises
    \/ InvokeReturns
    \/ InvokeRaises
    \/ Sleep
    \/ Handle
    \/ Except
    \/ Exhausted
    \/ NextCategory
    \/ Aggregate
    \/ SummarizeReturn
    \/ Finish

Spec == Init /\ [][Next]_vars

\* ------------------------------------------------ the tag filter on its own
\* All raw tag lists up to MaxTagLen over the alphabet.
RawTagLists == UNION {[1 .. n -> TagAlphabet] : n \in 0 .. MaxTagLen}

FilterInit ==
    /\ Idle
    /\ tags = {"a", "b"}
    /\ exhausted = {}
    /\ cache = {}
    /\ LoadOff
    /\ fpc = "ready"
    /\ fraw \in RawTagLists
    /\ ftags \in SUBSET TagAlphabet
    /\ fout = <<>>
    /\ fagain = <<>>

\* The filter applied to a raw list.
FilterApply ==
    /\ fpc = "ready"
    /\ fout' = FilterTags(fraw, ftags)
    /\ fpc' = "filtered"
    /\ UNCHANGED <<fraw, ftags, fagain>>
    /\ UNCHANGED <<op, pc, cat, llm, result, exc, log, elapsed, ret, results,
                   article, tags, exhausted>>
    /\ UNCHANGED callVars
    /\ UNCHANGED loadVars

\* The filter applied to its own output.
FilterAgain ==
    /\ fpc = "filtered"
    /\ fagain' = FilterTags(fout, ftags)
    /\ fpc' = "again"
    /\ UNCHANGED <<fraw, ftags, fout>>
    /\ UNCHANGED <<op, pc, cat, llm, result, exc, log, elapsed, ret, results,
                   article, tags, exhausted>>
    /\ UNCHANGED callVars
    /\ UNCHANGED loadVars

FilterNext == FilterApply \/ FilterAgain

FilterSpec == FilterInit /\ [][FilterNext]_vars

\* --------------------------------------------- the table loaders on their own
\* A classifier fresh from __init__, on any day, with or without each
\* snapshot file.
LoadInit ==
    /\ Idle
    /\ tags = {"a", "b"}
    /\ exhausted = {}
    /\ cache = {}
    /\ FilterOff
    /\ day \in Days
    /\ store = 0
    /\ files \in [AllTables -> {NoneVal, IntVal(0)}]
    /\ memo = [t \in AllTables |-> NoneVal]
    /\ last = NoLoad
    /\ hist = [t \in AllTables |-> NoneVal]

\* The effect of one loader call with outcome r on the table called name.
LoadCall(name, r) ==
    /\ memo' = [memo EXCEPT ![name] = r.cache]
    /\ files' = [files EXCEPT ![name] = r.file]
    /\ cache' = {t \in AllTables : memo'[t] # NoneVal}
    /\ last' = [table |-> name, day |-> day, store |-> store, from |-> r.from,
                out |-> r.out, val |-> r.val, hit |-> memo[name] # NoneVal]
    /\ hist' = IF r.out = "return" /\ r.from # "cache"
               THEN [hist EXCEPT ![name] =
                        IF @ = NoneVal
                        THEN [val |-> r.val, from |-> r.from, day |-> day,
                              writes |-> 1]
                        ELSE [@ EXCEPT !.writes = @ + 1]]
               ELSE hist
    /\ UNCHANGED <<day, store>>
    /\ UNCHANGED <<op, pc, cat, llm, result, exc, log, elapsed, ret, results,
                   article, tags, exhausted, text, summary, layers>>
    /\ UNCHANGED filterVars

\* A call of _load_tag_data between two top-level calls.
LoadTags ==
    /\ pc = "idle"
    /\ LoadCall("tags", load_tag_data(memo["tags"], files["tags"]))

\* A call of _load_company_data (or of load_company_data).
LoadCompany ==
    /\ pc = "idle"
    /\ \E ok \in BOOLEAN, wok \in BOOLEAN :
          LoadCall("company",
                   load_company_data(memo["company"], day, store, ok,
                                     files["company"], wok))

\* A call of _load_subsector_data.
LoadSubsectors ==
    /\ pc = "idle"
    /\ \E ok \in BOOLEAN, wok \in BOOLEAN :
          LoadCall("subsectors",
                   load_subsector_data(memo["subsectors"], day, store, ok,
                                       files["subsectors"], wok))

\* The date moves on while the process runs.
DayChanges ==
    /\ \E d \in Days : d # day /\ day' = d
    /\ UNCHANGED <<store, files, memo, last, hist>>
    /\ UNCHANGED <<op, pc, cat, llm, result, exc, log, elapsed, ret, results,
                   article, tags, exhausted>>
    /\ UNCHANGED filterVars
    /\ UNCHANGED callVars

\* The data of the backing store are revised.
StoreChanges ==
    /\ store < MaxRevision
    /\ store' = store + 1
    /\ UNCHANGED <<day, files, memo, last, hist>>
    /\ UNCHANGED <<op, pc, cat, llm, result, exc, log, elapsed, ret, results,
                   article, tags, exhausted>>
    /\ UNCHANGED filterVars
    /\ UNCHANGED callVars

LoadNext ==
    \/ LoadTags
    \/ LoadCompany
    \/ LoadSubsectors
    \/ DayChanges
    \/ StoreChanges

LoadSpec == LoadInit /\ [][LoadNext]_vars

\* ===================================================================== claims
\* --------------------------------------------------------- shared vocabulary
LastAttempt == log[Len(log)]

\* The output a category's contract can be parsed from: a mapping (whose tags
\* entry, if any, is a list; whose score entry, if any, is a number).
ValidClassifyOutput(category, r) ==
    /\ r.t = "dict"
    /\ category = "tags" => DictGet(r, "tags", ListVal(<<>>)).t = "list"

ValidScoreOutput(r) ==
    /\ r.t = "dict"
    /\ DictGet(r, "score", IntVal(0)).t = "int"

ValidSummaryOutput(r) ==
    /\ r.t = "dict"
    /\ Truthy(DictGet(r, "title", NoneVal))
    /\ Truthy(DictGet(r, "body", NoneVal))

ValidOutput(r) ==
    CASE ClassifierOp(op) -> ValidClassifyOutput(Category, r)
      [] op = "score" -> ValidScoreOutput(r)
      [] op = "summarize" -> ValidSummaryOutput(r)

\* An attempt fails by a null result, a rate limit, malformed JSON, or any
\* other exception (raised by the call or while reading its value).
AttemptSucceeds(a) == a.out = "value" /\ ValidOutput(a.val)
AttemptFails(a) == ~AttemptSucceeds(a)

\* The first occurrences of the values of raw that are in table, in order.
KeptPositions(raw, table) ==
    {i \in 1 .. Len(raw) : raw[i] \in table /\ \A j \in 1 .. (i - 1) : raw[j] # raw[i]}

ExpectedTags(raw, table) ==
    LET K == KeptPositions(raw, table) IN
    [p \in 1 .. Cardinality(K) |->
        raw[CHOOSE i \in K : Cardinality({j \in K : j <= i}) = p]]

\* What the output contract of a category makes of a valid response.
ParsedResult(category, r, table) ==
    CASE category = "tags" ->
             ListVal(ExpectedTags(DictGet(r, "tags", ListVal(<<>>)).v, table))
      [] category = "tickers" -> DictGet(r, "tickers", ListVal(<<>>))
      [] category = "subsectors" -> DictGet(r, "subsector", StrVal(""))
      [] category = "sentiment" -> DictGet(r, "sentiment", StrVal(""))
      [] category = "dimension" -> r

\* C1: in a classification invocation the backends are attempted in priority
\* order, each at most once; nothing is attempted after a backend succeeded
\* with valid output; and when backend k succeeds after k-1 failures the
\* invocation returns, after exactly k attempts, the result parsed from
\* backend k's response.
C1_FirstSuccessIsReturned ==
    op = "classify" =>
        /\ \A j \in 1 .. Len(log) : log[j].llm = j
        /\ \A j \in 1 .. (Len(log) - 1) : AttemptFails(log[j])
        /\ (pc \in {"loop", "except"} /\ Len(log) > 0) => AttemptFails(LastAttempt)
        /\ (pc = "ret" /\ Len(log) > 0 /\ AttemptSucceeds(LastAttempt)) =>
               /\ ret = ParsedResult(Category, LastAttempt.val, tags)
               /\ Len(log) = llm
               /\ llm \in get_llms

\* The last backend of the chain succeeds after every earlier one failed.
C1_Witness ==
    /\ op = "classify"
    /\ pc = "ret"
    /\ Len(log) = NumLLMs
    /\ NumLLMs > 1
    /\ log[1].out = "rl_other"
    /\ AttemptSucceeds(LastAttempt)
    /\ ret = ListVal(<<"b", "a">>)

\* C2: when every backend of the chain fails, classification and scoring
\* return None after exactly N attempts, and no exception of a backend
\* attempt reaches the caller.
C2_ExhaustionReturnsNull ==
    op \in {"classify", "score"} =>
        /\ pc = "raised" => log = <<>>
        /\ (pc = "ret" /\ \A j \in 1 .. Len(log) : AttemptFails(log[j])) =>
               /\ ret = NoneVal
               /\ Len(log) = NumLLMs
               /\ \A j \in 1 .. Len(log) : log[j].llm = j
        /\ (pc \in {"loop", "sleep", "handle", "except"}) => Len(log) <= NumLLMs

\* The scorer has used up its chain on a mix of failures.
C2_Witness ==
    /\ op = "score"
    /\ pc = "ret"
    /\ ret = NoneVal
    /\ Len(log) = NumLLMs
    /\ log[1].out = "json"
    /\ LastAttempt.out = "value"
    /\ LastAttempt.val = NoneVal

\* C3: classify_article_async returns the 5-tuple of the per-category results
\* exactly when all five are non-null, and None otherwise; nothing is
\* returned before the five invocations are over.
C3_AllOrNothing ==
    op = "classify" =>
        /\ pc # "done" => article = Unset
        /\ pc = "done" =>
              /\ Len(results) = Len(Categories)
              /\ article.t # "none" <=> \A j \in 1 .. Len(results) : results[j].t # "none"
              /\ article.t # "none" => article = [t |-> "tuple", v |-> results]
              /\ article.t \in {"none", "tuple"}

\* Four categories succeeded, dimension used up the chain, the article is None.
C3_Witness ==
    /\ op = "classify"
    /\ pc = "done"
    /\ \A j \in 1 .. 4 : results[j].t # "none"
    /\ results[5] = NoneVal
    /\ article = NoneVal

\* C4: the tag filter returns the first occurrences of the raw values that are
\* in the tag table, in their order (no duplicates, only table values), and
\* returns its own output unchanged; [b,a,b,x] with table {a,b} gives [b,a].
C4_TagFilter ==
    /\ fpc \in {"filtered", "again"} =>
          /\ fout = ExpectedTags(fraw, ftags)
          /\ \A p \in 1 .. Len(fout) : fout[p] \in ftags
          /\ \A p, q \in 1 .. Len(fout) : p # q => fout[p] # fout[q]
          /\ (fraw = <<"b", "a", "b", "x">> /\ ftags = {"a", "b"}) => fout = <<"b", "a">>
    /\ fpc = "again" => fagain = fout

\* The example of the specification, filtered twice.
C4_Witness ==
    /\ fpc = "again"
    /\ fraw = <<"b", "a", "b", "x">>
    /\ ftags = {"a", "b"}
    /\ fagain = <<"b", "a">>

\* C5: a response carrying the integer score r makes get_article_score return
\* r clamped into [0, 150], from that very backend; every score returned lies
\* in [0, 150].
C5_ScoreClamped ==
    op = "score" =>
        /\ \A j \in 1 .. (Len(log) - 1) : ~ValidScoreOutput(log[j].val)
        /\ (Len(log) > 0 /\ LastAttempt.out = "value"
              /\ ValidScoreOutput(LastAttempt.val)) =>
               /\ pc \in {"handle", "ret"}
               /\ pc = "ret" =>
                     LET r == DictGet(LastAttempt.val, "score", IntVal(0)).v IN
                     ret = IntVal(IF r < 0 THEN 0 ELSE IF r > 150 THEN 150 ELSE r)
        /\ (pc = "ret" /\ ret.t # "none") =>
               /\ ret.t = "int"
               /\ 0 <= ret.v /\ ret.v <= 150

\* The second backend answered 200 and 150 is returned.
C5_Witness ==
    /\ op = "score"
    /\ pc = "ret"
    /\ Len(log) = NumLLMs
    /\ LastAttempt.val = DictVal([score |-> IntVal(200)])
    /\ ret = IntVal(150)

\* C6: a backend that has signalled its daily limit is attempted no more in
\* this process, neither in the same invocation nor in a later one.
C6_DailyExhaustedNeverRetried ==
    (op = "classify" /\ pc \in {"sleep", "handle", "except"}) => llm \notin exhausted

\* C7: after every attempt of the classification loop, whatever its outcome,
\* the pacing delay has been applied exactly once before the next backend is
\* tried or the invocation returns.
C7_PacingAfterEveryAttempt ==
    (op = "classify" /\ pc \in {"loop", "ret"}) =>
        /\ \A j \in 1 .. Len(log) : log[j].slept
        /\ elapsed = PacingDelay * Len(log)

\* C8: a classification invocation that succeeds does not return before the
\* pacing wait that follows the successful call is over; on a first-attempt
\* success the invocation has waited the pacing delay when it returns.
C8_PacingBeforeReturn ==
    op = "classify" =>
        /\ pc = "handle" => LastAttempt.slept
        /\ (pc = "ret" /\ Len(log) > 0 /\ AttemptSucceeds(LastAttempt)) =>
               /\ LastAttempt.slept
               /\ elapsed >= PacingDelay
               /\ Len(log) = 1 => elapsed = PacingDelay

\* The first backend succeeded and the invocation has returned.
C8_Witness ==
    /\ op = "classify"
    /\ pc = "ret"
    /\ Len(log) = 1
    /\ AttemptSucceeds(LastAttempt)
    /\ ret = ListVal(<<"BBCA">>)
    /\ elapsed = PacingDelay

\* C9: in the dimension category a returned value that is not a mapping makes
\* the invocation return the mapping of the 8 keys to None; the backend is not
\* treated as failed.
C9_NonMappingDefaultFilled ==
    (/\ op = "classify"
     /\ Category = "dimension"
     /\ pc \in {"ret", "loop", "except"}
     /\ Len(log) > 0
     /\ LastAttempt.out = "value"
     /\ LastAttempt.val.t \notin {"none", "dict"}) =>
        /\ pc = "ret"
        /\ ret = FullDimension(NoneVal)

\* C10 as stated: every non-null dimension result is a mapping with all 8
\* fixed keys, also when the backend's mapping lacks some of them.
C10_AllKeysPresent ==
    (op = "classify" /\ Category = "dimension" /\ pc = "ret" /\ ret.t # "none") =>
        /\ ret.t = "dict"
        /\ DimensionKeys \subseteq DOMAIN ret.v

\* C10 as amended: every non-null dimension result is a mapping, and it is the
\* mapping the backend returned, unchanged (missing keys are not filled in);
\* so is the dimension component of every non-null article result.
C10_DimensionPassedThrough ==
    /\ (op = "classify" /\ Category = "dimension" /\ pc = "ret" /\ ret.t # "none") =>
          /\ ret.t = "dict"
          /\ LastAttempt.out = "value"
          /\ ret = LastAttempt.val
    /\ (pc = "done" /\ article.t = "tuple") => article.v[5].t = "dict"

\* A mapping with one key came back and is the dimension result.
C10_Witness ==
    /\ op = "classify"
    /\ Category = "dimension"
    /\ pc = "ret"
    /\ ret = DictVal([valuation |-> IntVal(1)])

\* C11: no exception crosses classify_article_async or get_article_score:
\* every failure, also one raised before the loop (table load, prompt
\* construction), comes out as a null result.
C11_NoExceptionCrosses ==
    op \in {"classify", "score"} => pc # "raised"

\* C12: the five invocations of an article run one after the other in the
\* order tags, tickers, subsectors, sentiment, dimension: an invocation runs
\* only when exactly the earlier categories have returned, it returns only
\* after the pacing wait of each returned call, and attempts exist in the
\* running invocation alone.
C12_StrictlySequential ==
    op = "classify" =>
        /\ pc \in {"begin", "loop", "sleep", "handle", "except", "ret"} =>
              /\ cat = Len(results) + 1
              /\ Category =
                   <<"tags", "tickers", "subsectors", "sentiment", "dimension">>[cat]
        /\ pc = "begin" => log = <<>> /\ ret = Unset
        /\ pc = "ret" => \A j \in 1 .. Len(log) : log[j].out = "value" => log[j].slept
        /\ pc \in {"aggregate", "done"} => Len(results) = 5 /\ log = <<>>

\* The first attempt of dimension is about to start; four results are in.
C12_Witness ==
    /\ op = "classify"
    /\ pc = "loop"
    /\ Category = "dimension"
    /\ llm = 1
    /\ log = <<>>
    /\ Len(results) = 4

\* C13: with empty extracted text summarize_news returns ("", "") and no
\* backend is invoked.
C13_EmptyTextNoBackend ==
    (op = "summarize" /\ pc # "extract" /\ text = <<>>) =>
        /\ pc = "done"
        /\ log = <<>>
        /\ summary = Pair(StrVal(""), StrVal(""))

\* The extractor gave nothing and the sentinel pair is returned.
C13_Witness ==
    /\ op = "summarize"
    /\ pc = "done"
    /\ text = <<>>
    /\ log = <<>>
    /\ summary = Pair(StrVal(""), StrVal(""))

RateLimited(e) == e \in {"rl_daily", "rl_other", "rl_openai"}

\* C14: in summarize_llama a rate-limit failure of backend k is not
\* swallowed: it reaches the caller and no later backend is invoked; in
\* classification and scoring a rate-limit failure of backend k < N is
\* followed by an attempt on backend k+1.
C14_RateLimitPropagates ==
    /\ op = "summarize" =>
          \A j \in 1 .. Len(log) :
              RateLimited(log[j].out) => j = Len(log) /\ pc \in {"except", "raised"}
    /\ (op \in {"classify", "score"} /\ pc \in {"ret", "raised"}) =>
          \A j \in 1 .. Len(log) :
              (RateLimited(log[j].out) /\ j < NumLLMs) => Len(log) > j

\* C15: when summarize_news returns, it returns the title and body of the
\* first backend in priority order whose response had both non-empty, or the
\* pair ("", "") exactly when no backend had; backends that raise or lack a
\* field are passed over.
C15_SummaryPairOrSentinel ==
    op = "summarize" =>
        /\ \A j \in 1 .. Len(log) : log[j].llm = j
        /\ \A j \in 1 .. (Len(log) - 1) : AttemptFails(log[j])
        /\ pc = "done" =>
              IF Len(log) > 0 /\ AttemptSucceeds(LastAttempt)
              THEN /\ summary = Pair(LastAttempt.val.v["title"], LastAttempt.val.v["body"])
                   /\ summary.title # StrVal("")
                   /\ summary.body # StrVal("")
              ELSE /\ summary = Pair(StrVal(""), StrVal(""))
                   /\ text # <<>> => Len(log) = NumLLMs

\* The first backend gave a title only, the last one both fields.
C15_Witness ==
    /\ op = "summarize"
    /\ pc = "done"
    /\ Len(log) = NumLLMs
    /\ NumLLMs > 1
    /\ log[1].val = DictVal([title |-> StrVal("T1")])
    /\ summary = Pair(StrVal("T2"), StrVal("B2"))

\* C16: every non-null score returned is the clamp of a score value present
\* in a backend's response; a response without score value gives no number.
C16_NoFabricatedScore ==
    (op = "score" /\ pc = "ret" /\ ret.t # "none") =>
        /\ LastAttempt.out = "value"
        /\ LastAttempt.val.t = "dict"
        /\ "score" \in DOMAIN LastAttempt.val.v

\* C17: in classification a null or empty result (an empty mapping, say) is a
\* failed attempt: the loop goes on to the next backend and returns nothing
\* made from that response.
C17_EmptyResultAdvances ==
    (/\ op = "classify"
     /\ pc = "ret"
     /\ Len(log) > 0
     /\ LastAttempt.out = "value"
     /\ ~Truthy(LastAttempt.val)) =>
        /\ ret = NoneVal
        /\ llm \notin get_llms

\* C18: a classification request with a category outside the five fails with
\* an error before the loop: no backend is invoked and nothing is returned.
C18_UnknownCategoryFails ==
    (ClassifierOp(op) /\
     Category \notin {"tags", "tickers", "subsectors", "sentiment", "dimension"}) =>
        /\ pc \in {"begin", "raised"}
        /\ log = <<>>
        /\ ret = Unset

\* The request for an unknown category has ended in an error.
C18_Witness ==
    /\ op = "direct"
    /\ Category = "headline"
    /\ pc = "raised"
    /\ cache = AllTables
    /\ log = <<>>

\* C19: the tickers and the subsector of a successful response are returned
\* as the backend gave them, whether or not the reference tables hold them;
\* the tags returned are all in the tag table.
C19_TickersSubsectorUnfiltered ==
    (/\ ClassifierOp(op)
     /\ pc = "ret"
     /\ Len(log) > 0
     /\ LastAttempt.out = "value"
     /\ LastAttempt.val.t = "dict") =>
        /\ (Category = "tickers" /\ "tickers" \in DOMAIN LastAttempt.val.v) =>
               ret = LastAttempt.val.v["tickers"]
        /\ (Category = "subsectors" /\ "subsector" \in DOMAIN LastAttempt.val.v) =>
               ret = LastAttempt.val.v["subsector"]
        /\ (Category = "tags" /\ ret.t = "list") =>
               \A p \in 1 .. Len(ret.v) : ret.v[p] \in tags

\* A ticker the company table does not hold is returned.
C19_Witness ==
    /\ op = "classify"
    /\ Category = "tickers"
    /\ pc = "ret"
    /\ ret = ListVal(<<"ZZZZ">>)
    /\ "ZZZZ" \notin CompanyTable

\* C20: the scoring loop runs as the classification loop does: the same
\* attempts in the same order, each outcome ends the iteration or the call
\* alike, and the pacing delay follows every call that returned.
C20_ScoringRefinesInvocationLoop ==
    op = "score" =>
        /\ \A j \in 1 .. Len(log) : log[j].llm = j
        /\ \A j \in 1 .. (Len(log) - 1) : AttemptFails(log[j])
        /\ pc \in {"loop", "ret"} =>
              /\ \A j \in 1 .. Len(log) : log[j].out = "value" => log[j].slept
              /\ elapsed = PacingDelay * Cardinality({j \in 1 .. Len(log) : log[j].out = "value"})

\* What one attempt alone makes the running call return, if anything.
FromOneAttempt(a) ==
    IF a.out # "value" \/ a.val.t # "dict" THEN {}
    ELSE CASE ClassifierOp(op) -> {ParsedResult(Category, a.val, tags)}
           [] op = "score" ->
                  LET sc == DictGet(a.val, "score", IntVal(0)) IN
                  IF sc.t = "int" THEN {IntVal(ClampScore(sc.v))} ELSE {}
           [] op = "summarize" ->
                  IF ValidSummaryOutput(a.val)
                  THEN {Pair(a.val.v["title"], a.val.v["body"])}
                  ELSE {}
           [] OTHER -> {}

\* C21: no loop puts output of two backends together: every result returned
\* that is not the null or the empty pair is what one single attempt's
\* response gives; when no single response has both title and body the
\* summary is the pair ("", ""), also when one response had the title and a
\* later one the body.
C21_NoMixing ==
    /\ ((ClassifierOp(op) \/ op = "score") /\ pc = "ret" /\ ret # NoneVal) =>
           /\ Len(log) > 0
           /\ ret \in FromOneAttempt(LastAttempt)
    /\ (op = "summarize" /\ pc = "done" /\ summary # Pair(StrVal(""), StrVal(""))) =>
           \E j \in 1 .. Len(log) : summary \in FromOneAttempt(log[j])
    /\ (op = "summarize" /\ pc = "done"
          /\ \A j \in 1 .. Len(log) : FromOneAttempt(log[j]) = {}) =>
           summary = Pair(StrVal(""), StrVal(""))

\* One backend gave a title only, the next a body only: the empty pair.
C21_Witness ==
    /\ op = "summarize"
    /\ pc = "done"
    /\ Len(log) = NumLLMs
    /\ log[1].val = DictVal([title |-> StrVal("T1")])
    /\ log[2].val = DictVal([body |-> StrVal("B2")])
    /\ summary = Pair(StrVal(""), StrVal(""))

\* C22: classify_article_async runs all five invocations, whatever the
\* earlier ones returned, and then returns: it never ends in an exception, it
\* ends with five results, and every invocation makes between 1 and NumLLMs
\* chain invocations (NumLLMs when it ran out of backends), which makes
\* between 5 and 5 * NumLLMs for the article.
C22_AllFiveInvocations ==
    op = "classify" =>
        /\ pc # "raised"
        /\ pc \in {"aggregate", "done"} => Len(results) = Len(Categories)
        /\ pc = "ret" =>
              /\ 1 <= Len(log)
              /\ Len(log) <= NumLLMs
              /\ llm \notin get_llms => Len(log) = NumLLMs

\* The latest loader call found the cache field empty and returned a table.
LoadedAnew == last.out = "return" /\ ~last.hit

\* C23 as stated: each of the three tables, loaded into an empty cache field
\* on day 1 or 15, comes from the backing store and its snapshot file is
\* rewritten; on any other day it comes from the snapshot file.
C23_RefreshOnSchedule ==
    LoadedAnew =>
        IF last.day \in {1, 15}
        THEN /\ last.from = "store"
             /\ last.val = IntVal(last.store)
             /\ files[last.table] = last.val
        ELSE last.from = "file"

\* C23, amended: the company and the subsector table, loaded into an empty
\* cache field on day 1 or 15, come from the backing store and the snapshot
\* file is rewritten with them; on any other day they come from the snapshot
\* file, which is left as it is.  The tag table comes from its snapshot file
\* on every day.
C23_CompanySubsectorRefresh ==
    /\ (LoadedAnew /\ last.table \in {"company", "subsectors"}) =>
           IF last.day \in {1, 15}
           THEN /\ last.from = "store"
                /\ last.val = IntVal(last.store)
                /\ files[last.table] = last.val
           ELSE /\ last.from = "file"
                /\ last.val = files[last.table]
    /\ (LoadedAnew /\ last.table = "tags") =>
           /\ last.from = "file"
           /\ last.val = files["tags"]
    /\ \A t \in AllTables :
           hist[t] # NoneVal =>
               (hist[t].from = "store") = (t # "tags" /\ hist[t].day \in {1, 15})

\* On day 15 the company table was fetched in its revised form and the
\* snapshot rewritten, while the tag table was read from its file.
C23_Witness ==
    /\ LoadedAnew
    /\ last.table = "company"
    /\ last.day = 15
    /\ last.val = IntVal(1)
    /\ files["company"] = IntVal(1)
    /\ hist["tags"] # NoneVal
    /\ hist["tags"].day = 15
    /\ hist["tags"].from = "file"

\* C24: a cache field is written at most once: once a table is loaded, every
\* later call of its loader returns that table from the cache field, reads
\* neither store nor file and writes nothing, on whatever day; a call that
\* raises leaves the field empty.
C24_CacheWrittenOnce ==
    /\ \A t \in AllTables :
           /\ hist[t] = NoneVal => memo[t] = NoneVal
           /\ hist[t] # NoneVal =>
                  /\ hist[t].writes = 1
                  /\ memo[t] = hist[t].val
    /\ last.hit =>
           /\ last.out = "return"
           /\ last.from = "cache"
           /\ last.val = hist[last.table].val
    /\ last.out = "raise" => memo[last.table] = NoneVal

\* The subsector table was loaded from the file on another day; the process
\* is still running on day 15, the store has newer data, and the loader
\* returns the old table.
C24_Witness ==
    /\ last.table = "subsectors"
    /\ last.hit
    /\ last.day = 15
    /\ hist["subsectors"].day = 2
    /\ hist["subsectors"].from = "file"
    /\ last.val = IntVal(0)
    /\ store = 1

\* The layers run, in order.
LayersTried == [j \in 1 .. Len(layers.tried) |-> layers.tried[j].layer]

\* A layer failed: it raised, or it gave no text.
LayerFailed(o) == o.k = "raise" \/ o.v = <<>>

\* C25: get_article_body never raises; it runs the extractor behind the
\* proxy first, the scrape of the page only when that extractor returned an
\* empty text, and the extractor without proxy only when the layer before it
\* raised; it returns the text of the last layer run, and the empty string
\* when every layer run has failed.
C25_LayeredExtraction ==
    (op = "summarize" /\ pc # "extract") =>
        /\ layers.out = "return"
        /\ LayersTried \in {<<"proxy">>, <<"proxy", "scrape">>,
                            <<"proxy", "direct">>,
                            <<"proxy", "scrape", "direct">>}
        /\ \A j \in 1 .. Len(layers.tried) :
              /\ layers.tried[j].layer = "scrape" =>
                     layers.tried[1].out = Text(<<>>)
              /\ layers.tried[j].layer = "direct" =>
                     layers.tried[j - 1].out = Raised
              /\ j < Len(layers.tried) => LayerFailed(layers.tried[j].out)
        /\ LET final == layers.tried[Len(layers.tried)].out IN
           text = IF LayerFailed(final) THEN <<>> ELSE final.v

\* All three layers ran and failed: the text is empty.
C25_Witness ==
    /\ op = "summarize"
    /\ pc = "done"
    /\ LayersTried = <<"proxy", "scrape", "direct">>
    /\ layers.tried[3].out = Raised
    /\ layers.out = "return"
    /\ text = <<>>

\* The response carries a score that is a number.
YieldsNumericScore(a) ==
    /\ a.out = "value"
    /\ a.val.t = "dict"
    /\ "score" \in DOMAIN a.val.v
    /\ a.val.v["score"].t = "int"

\* C26: in get_article_score a backend whose response is null, malformed or
\* carries a score that is no number is a failed attempt of that backend
\* alone: the next backend is tried, and the score returned is that of the
\* first backend, in priority order, whose response carries a numeric score.
C26_FirstNumericScore ==
    op = "score" =>
        /\ \A j \in 1 .. Len(log) : log[j].llm = j
        /\ \A j \in 1 .. (Len(log) - 1) : ~YieldsNumericScore(log[j])
        /\ (pc \in {"loop", "except"} /\ Len(log) > 0) =>
               ~YieldsNumericScore(LastAttempt)
        /\ (pc = "ret" /\ ret # NoneVal) =>
               /\ YieldsNumericScore(LastAttempt)
               /\ ret = IntVal(ClampScore(LastAttempt.val.v["score"].v))
        /\ (pc = "ret" /\ ret = NoneVal) => Len(log) = NumLLMs

====
